---- MODULE Spec2Model ----
(***************************************************************************)
(* Model of the OpenPulse runtime Cython code generator                    *)
(* (qiskit/providers/aer/openpulse/solver/codegen.py, class OPCodegen).    *)
(*                                                                         *)
(* A line of generated source is a record: `lvl` is the indent level that  *)
(* write() prefixes, `pre` the indentation units already inside the        *)
(* string, `op` the statement kind, and idx/name/expr/args the values the  *)
(* format strings splice in.                                               *)
(***************************************************************************)
EXTENDS Integers, Sequences, FiniteSets, TLC

\* ---------------------------------------------------------------- bounds
MaxTerms == 2      \* Hamiltonian terms in a model
MaxChans == 2      \* channels in a model
MaxVars  == 1      \* free variables in a model
MaxCalls == 2      \* generate() calls started in one behaviour
MaxLevel == 1      \* indent level reached by direct indent() calls

\* The two callers that may run generate(); caller 2 exists only in SpecConc.
Threads == {1, 2}

\* generate(filename="rhs.pyx"): the default and one caller-chosen name.
DefaultFile == "rhs.pyx"
Filenames == {DefaultFile, "rhs_b.pyx"}

\* Channel and free-variable names a model builder may hand over, in the
\* insertion order of the dictionaries.
ChanOrder == <<"D0", "D1", "vec">>
VarOrder  == <<"omega", "D0", "td0">>

\* term[1] of a Hamiltonian term: "" is "no time dependence", the other an
\* expression over the channel D0 and the free variable omega.
TdExpr == "omega*D0"
TdTags == {"", TdExpr}
Refs(tag) == IF tag = TdExpr THEN {"omega", "D0"} ELSE {}
\* A term is a list or a tuple (isinstance(term, list)), with its tag.
TermKinds == [isList : BOOLEAN, td : TdTags]

\* ------------------------------------------------------------- op_system
Increasing(f) ==
    \A i \in 1..(Len(f) - 1) : f[i] < f[i + 1]

SubSeqs(order, max) ==
    LET n == Len(order)
        picks == UNION {[1..k -> 1..n] : k \in 0..(IF max < n THEN max ELSE n)}
    IN  {[i \in 1..Len(f) |-> order[f[i]]] : f \in {g \in picks : Increasing(g)}}

\* channels: name -> index into the pulse table (here its position in ChanOrder)
ChanIndex(name) == CHOOSE i \in 1..Len(ChanOrder) : ChanOrder[i] = name

ChannelTables ==
    {[i \in 1..Len(s) |-> [name |-> s[i], idx |-> ChanIndex(s[i]) - 1]] :
        s \in SubSeqs(ChanOrder, MaxChans)}

VarTables == SubSeqs(VarOrder, MaxVars)

TermLists == UNION {[1..n -> TermKinds] : n \in 0..MaxTerms}

OpSystems == [system : TermLists, channels : ChannelTables, vars : VarTables]

\* ----------------------------------------------------------------- lines
Arg(kind, idx, name) == [kind |-> kind, idx |-> idx, name |-> name]

Str(op, pre, idx, name, expr, args) ==
    [op |-> op, pre |-> pre, idx |-> idx, name |-> name, expr |-> expr, args |-> args]

Plain(op) == Str(op, 0, 0, "", "", <<>>)

\* write(): "    " * self.level + string + "\n"
write(lvl, string) ==
    [lvl |-> lvl, pre |-> string.pre, op |-> string.op, idx |-> string.idx,
     name |-> string.name, expr |-> string.expr, args |-> string.args]

WriteAll(lvl, strings) == [i \in 1..Len(strings) |-> write(lvl, strings[i])]

\* self.num_ham_terms = len(self.op_system.system)
num_ham_terms(sys) == Len(sys.system)

cython_preamble == <<Plain("preamble")>>

cython_checks == <<Plain("checks")>>

RECURSIVE TermArgs(_)
TermArgs(n) ==
    IF n = 0 THEN <<>>
    ELSE TermArgs(n - 1) \o
         <<Arg("data", n - 1, ""), Arg("idx", n - 1, ""), Arg("ptr", n - 1, "")>>

RECURSIVE ChanArgs(_)
ChanArgs(chans) ==
    IF chans = <<>> THEN <<>>
    ELSE <<Arg("pulses", 0, Head(chans).name), Arg("fc", 0, Head(chans).name)>>
         \o ChanArgs(Tail(chans))

VarArgs(vs) == [i \in 1..Len(vs) |-> Arg("var", 0, vs[i])]

ODE_func_header_omit_register(sys) ==
    <<Str("def", 0, 0, "cy_td_ode_rhs", "",
          <<Arg("t", 0, ""), Arg("vec", 0, "")>>
          \o TermArgs(num_ham_terms(sys))
          \o <<Arg("pulse_array", 0, ""), Arg("pulse_indices", 0, "")>>
          \o ChanArgs(sys.channels)
          \o VarArgs(sys.vars))>>

ODE_func_header(sys) ==
    <<Str("def", 0, 0, "cy_td_ode_rhs", "",
          <<Arg("t", 0, ""), Arg("vec", 0, "")>>
          \o TermArgs(num_ham_terms(sys))
          \o <<Arg("pulse_array", 0, ""), Arg("pulse_indices", 0, "")>>
          \o ChanArgs(sys.channels)
          \o VarArgs(sys.vars)
          \o <<Arg("register", 0, "")>>)>>

\* item[1] is truthy
Truthy(td) == td # ""

RECURSIVE TdDecls(_, _)
TdDecls(system, kk) ==
    IF kk >= Len(system) THEN <<>>
    ELSE (IF Truthy(system[kk + 1].td)
          THEN <<Str("cdef_td", 0, kk, "", "", <<>>)>> ELSE <<>>)
         \o TdDecls(system, kk + 1)

func_header(sys) ==
    <<Plain("blank"), Plain("cdef_row"), Plain("cdef_num_rows"), Plain("cdef_out"),
      Plain("blank")>>
    \o [i \in 1..Len(sys.channels) |->
            Str("cdef_chan", 0, 0, sys.channels[i].name, "", <<>>)]
    \o TdDecls(sys.system, 0)

channels(sys) ==
    <<Plain("blank"), Plain("comment")>>
    \o [i \in 1..Len(sys.channels) |->
            Str("chan", 0, sys.channels[i].idx, sys.channels[i].name, "", <<>>)]
    \o <<Plain("blank")>>

\* isinstance(term, list) or term[1]
IsTdInBody(term) == term.isList \/ Truthy(term.td)

RECURSIVE TermStmts(_, _)
TermStmts(system, idx) ==
    IF idx >= Len(system) THEN <<>>
    ELSE (IF IsTdInBody(system[idx + 1])
          THEN <<Str("tdassign", 0, idx, "", system[idx + 1].td, <<>>),
                 Str("guard", 0, idx, "", "", <<>>),
                 Str("spmv", 1, idx, "", "td", <<>>)>>
          ELSE <<Str("spmv", 0, idx, "", "1.0", <<>>)>>)
         \o TermStmts(system, idx + 1)

func_vars(sys) == <<Plain("comment")>> \o TermStmts(sys.system, 0)

func_end ==
    <<Plain("blank"), Plain("comment"), Plain("cdef_dims"), Plain("arr_out"),
      Plain("enableflags"), Plain("return")>>

\* The lines generate() appends to self.code, entered at indent level lvl
\* (lines 62-78: indent() after the header, dedent() after func_end()).
generate_lines_swapped(sys, lvl) ==
    WriteAll(lvl, cython_preamble)
    \o WriteAll(lvl, cython_checks \o ODE_func_header(sys))
    \o WriteAll(lvl + 1, func_header(sys))
    \o WriteAll(lvl + 1, func_vars(sys))
    \o WriteAll(lvl + 1, channels(sys))
    \o WriteAll(lvl + 1, func_end)

generate_lines(sys, lvl) ==
    WriteAll(lvl, cython_preamble)
    \o WriteAll(lvl, cython_checks \o ODE_func_header(sys))
    \o WriteAll(lvl + 1, func_header(sys))
    \o WriteAll(lvl + 1, channels(sys))
    \o WriteAll(lvl + 1, func_vars(sys))
    \o WriteAll(lvl + 1, func_end)

\* ----------------------------------------------------------------- state
VARIABLES
    op_system,   \* the model every OPCodegen is built from
    pc,          \* each caller's position in generate()
    code,        \* self.code
    level,       \* self.level
    self_file,   \* self._file: the name it was opened under, or "None"
    filename,    \* generate()'s argument
    entry_level, \* self.level when generate() was entered
    last_op,     \* the last public method that returned or raised
    reg,         \* the value of CGEN_NUM loaded by `CGEN_NUM += 1`
    CGEN_NUM,    \* op_set.CGEN_NUM
    fs,          \* the files: whether open, and their content
    gens,        \* the generations that completed, in completion order
    ncalls       \* generate() calls started

vars == <<op_system, pc, code, level, self_file, filename, entry_level, last_op,
          reg, CGEN_NUM, fs, gens, ncalls>>

NoFile == [exists |-> FALSE, open |-> FALSE, content |-> <<>>]

AtRest(p) == pc[p] = "idle"

InitCommon ==
    /\ code = [p \in Threads |-> <<>>]
    /\ level = [p \in Threads |-> 0]
    /\ self_file = [p \in Threads |-> "None"]
    /\ filename = [p \in Threads |-> DefaultFile]
    /\ entry_level = [p \in Threads |-> 0]
    /\ last_op = [p \in Threads |-> "init"]
    /\ reg = [p \in Threads |-> 0]
    /\ CGEN_NUM = 0
    /\ fs = [f \in Filenames |-> NoFile]
    /\ gens = <<>>
    /\ ncalls = 0

TupleTerm(td) == [isList |-> FALSE, td |-> td]
ListTerm(td) == [isList |-> TRUE, td |-> td]

\* The models of Spec: no channel or the channels D0 and D1, with no term,
\* with a time-dependent and a time-independent term, or with one
\* time-independent term given as a list.
SeqSystems ==
    {s \in OpSystems :
        /\ s.vars = <<>>
        /\ {s.channels[i].name : i \in 1..Len(s.channels)} \in {{}, {"D0", "D1"}}
        /\ s.system \in {<<>>, <<TupleTerm(TdExpr), TupleTerm("")>>, <<ListTerm("")>>}}

\* The model of SpecConc.
ConcSystem ==
    [system |-> <<TupleTerm(TdExpr)>>,
     channels |-> <<[name |-> "D0", idx |-> 0]>>,
     vars |-> <<"omega">>]

\* One caller, every operation, a few models.
Init ==
    /\ op_system \in SeqSystems
    /\ pc = [p \in Threads |-> IF p = 1 THEN "idle" ELSE "off"]
    /\ InitCommon

\* One caller, any model.
InitEmit ==
    /\ op_system \in OpSystems
    /\ pc = [p \in Threads |-> IF p = 1 THEN "idle" ELSE "off"]
    /\ InitCommon

\* Two callers, each with its own generator, one model.
InitConc ==
    /\ op_system = ConcSystem
    /\ pc = [p \in Threads |-> "idle"]
    /\ InitCommon

\* ------------------------------------------------------------- operations
\* OPCodegen.__init__: a fresh generator for the same model.
OPCodegen_init(p) ==
    /\ AtRest(p)
    /\ code[p] # <<>> \/ level[p] # 0
    /\ code' = [code EXCEPT ![p] = <<>>]
    /\ level' = [level EXCEPT ![p] = 0]
    /\ self_file' = [self_file EXCEPT ![p] = "None"]
    /\ last_op' = [last_op EXCEPT ![p] = "init"]
    /\ UNCHANGED <<op_system, pc, filename, entry_level, reg, CGEN_NUM, fs, gens, ncalls>>

indent(p) ==
    /\ AtRest(p)
    /\ level[p] < MaxLevel
    /\ level' = [level EXCEPT ![p] = level[p] + 1]
    /\ last_op' = [last_op EXCEPT ![p] = "indent"]
    /\ UNCHANGED <<op_system, pc, code, self_file, filename, entry_level, reg,
                   CGEN_NUM, fs, gens, ncalls>>

dedent_unchecked(p) ==
    /\ AtRest(p)
    /\ level[p] >= 0
    /\ level' = [level EXCEPT ![p] = level[p] - 1]
    /\ last_op' = [last_op EXCEPT ![p] = "dedent"]
    /\ UNCHANGED <<op_system, pc, code, self_file, filename, entry_level, reg,
                   CGEN_NUM, fs, gens, ncalls>>

dedent(p) ==
    /\ AtRest(p)
    /\ IF level[p] = 0
       THEN /\ last_op' = [last_op EXCEPT ![p] = "dedent_raised"]
            /\ UNCHANGED level
       ELSE /\ level' = [level EXCEPT ![p] = level[p] - 1]
            /\ last_op' = [last_op EXCEPT ![p] = "dedent"]
    /\ UNCHANGED <<op_system, pc, code, self_file, filename, entry_level, reg,
                   CGEN_NUM, fs, gens, ncalls>>

\* generate(), lines 62-78: every write(), with indent() and dedent() around
\* the function body.
generate_emit(p, fn) ==
    /\ AtRest(p)
    /\ ncalls < MaxCalls
    /\ ncalls' = ncalls + 1
    /\ filename' = [filename EXCEPT ![p] = fn]
    /\ entry_level' = [entry_level EXCEPT ![p] = level[p]]
    /\ code' = [code EXCEPT ![p] = code[p] \o generate_lines(op_system, level[p])]
    /\ level' = [level EXCEPT ![p] = (level[p] + 1) - 1]
    /\ pc' = [pc EXCEPT ![p] = "open"]
    /\ UNCHANGED <<op_system, self_file, last_op, reg, CGEN_NUM, fs, gens>>

\* line 80, file(): open(filename, "w") truncates
file(p) ==
    /\ pc[p] = "open"
    /\ fs' = [fs EXCEPT ![filename[p]] = [exists |-> TRUE, open |-> TRUE, content |-> <<>>]]
    /\ self_file' = [self_file EXCEPT ![p] = filename[p]]
    /\ pc' = [pc EXCEPT ![p] = "writelines"]
    /\ UNCHANGED <<op_system, code, level, filename, entry_level, last_op, reg,
                   CGEN_NUM, gens, ncalls>>

\* line 81
writelines(p) ==
    /\ pc[p] = "writelines"
    /\ fs' = [fs EXCEPT ![self_file[p]].content = code[p]]
    /\ pc' = [pc EXCEPT ![p] = "close"]
    /\ UNCHANGED <<op_system, code, level, self_file, filename, entry_level, last_op,
                   reg, CGEN_NUM, gens, ncalls>>

\* line 81 raising (the device is full, the file is gone): nothing or all but
\* the last line has reached the file, and the exception leaves generate().
FailPoints(n) == {0, n - 1}

writelines_raises(p) ==
    /\ pc[p] = "writelines"
    /\ \E k \in FailPoints(Len(code[p])) :
          fs' = [fs EXCEPT ![self_file[p]].content = SubSeq(code[p], 1, k)]
    /\ pc' = [pc EXCEPT ![p] = "raised"]
    /\ last_op' = [last_op EXCEPT ![p] = "generate_raised"]
    /\ UNCHANGED <<op_system, code, level, self_file, filename, entry_level,
                   reg, CGEN_NUM, gens, ncalls>>

\* line 82
close(p) ==
    /\ pc[p] = "close"
    /\ fs' = [fs EXCEPT ![self_file[p]].open = FALSE]
    /\ pc' = [pc EXCEPT ![p] = "load"]
    /\ UNCHANGED <<op_system, code, level, self_file, filename, entry_level, last_op,
                   reg, CGEN_NUM, gens, ncalls>>

\* line 83, op_set.CGEN_NUM += 1: the load ...
load_CGEN_NUM(p) ==
    /\ pc[p] = "load"
    /\ reg' = [reg EXCEPT ![p] = CGEN_NUM]
    /\ pc' = [pc EXCEPT ![p] = "store"]
    /\ UNCHANGED <<op_system, code, level, self_file, filename, entry_level, last_op,
                   CGEN_NUM, fs, gens, ncalls>>

\* ... and the store, after which generate() returns
store_CGEN_NUM(p) ==
    /\ pc[p] = "store"
    /\ CGEN_NUM' = reg[p] + 1
    /\ gens' = Append(gens, [by |-> p, file |-> filename[p], func |-> "cy_td_ode_rhs",
                             tag |-> reg[p], body |-> code[p]])
    /\ last_op' = [last_op EXCEPT ![p] = "generate"]
    /\ pc' = [pc EXCEPT ![p] = "idle"]
    /\ UNCHANGED <<op_system, code, level, self_file, filename, entry_level, reg,
                   fs, ncalls>>

Next ==
    \E p \in Threads :
        \/ OPCodegen_init(p)
        \/ indent(p)
        \/ dedent(p)
        \/ \E fn \in Filenames : generate_emit(p, fn)
        \/ file(p)
        \/ writelines(p)
        \/ writelines_raises(p)
        \/ close(p)
        \/ load_CGEN_NUM(p)
        \/ store_CGEN_NUM(p)

Spec == Init /\ [][Next]_vars

\* generate() on a generator that has not generated yet.
generate_fresh(p, fn) ==
    /\ code[p] = <<>>
    /\ level[p] = 0
    /\ generate_emit(p, fn)

NextEmit ==
    \E p \in Threads :
        \/ \E fn \in Filenames : generate_fresh(p, fn)
        \/ file(p)
        \/ writelines(p)
        \/ writelines_raises(p)
        \/ close(p)
        \/ load_CGEN_NUM(p)
        \/ store_CGEN_NUM(p)

SpecEmit == InitEmit /\ [][NextEmit]_vars

SpecConc == InitConc /\ [][Next]_vars

\* ------------------------------------------------- reading emitted source
Min(S) == CHOOSE x \in S : \A y \in S : x <= y

Positions(body, op) == {i \in 1..Len(body) : body[i].op = op}

\* The lines of the function whose header is line d: up to the next header.
SegEnd(body, d) ==
    LET later == {j \in Positions(body, "def") : j > d}
    IN  IF later = {} THEN Len(body) ELSE Min(later) - 1

ChanNames(sys) == {sys.channels[i].name : i \in 1..Len(sys.channels)}
VarNames(sys) == {sys.vars[i] : i \in 1..Len(sys.vars)}

\* Every text generate() has produced: each generator's self.code and the
\* body of each completed generation.
Emitted == {code[p] : p \in Threads} \cup {gens[i].body : i \in 1..Len(gens)}

\* ------------------------------------------------------------------- C1
ExpectedArgs(sys) ==
    2 + 3 * Len(sys.system) + 2 + 2 * Len(sys.channels) + Len(sys.vars) + 1

\* C1: every function header generate() emits for the model has exactly
\* 2 + 3*(#terms) + 2 + 2*(#channels) + (#free variables) + 1 arguments.
C1_HeaderArgCount ==
    \A body \in Emitted :
        \A d \in Positions(body, "def") :
            Len(body[d].args) = ExpectedArgs(op_system)

\* A generation completed for a model with terms, channels and a free variable.
C1_Witness ==
    /\ Len(gens) > 0
    /\ Len(op_system.system) = MaxTerms
    /\ Len(op_system.channels) > 0
    /\ Len(op_system.vars) > 0
    /\ Positions(gens[1].body, "def") # {}

\* ------------------------------------------------------------------- C2
TdName(i) == IF i = 0 THEN "td0" ELSE IF i = 1 THEN "td1" ELSE IF i = 2 THEN "td2"
             ELSE "td3"

Reserved(sys) ==
    {"t", "vec", "out", "row", "num_rows", "register"}
    \cup {TdName(i) : i \in 0..(Len(sys.system) - 1)}

Collides(sys) ==
    \/ (ChanNames(sys) \cup VarNames(sys)) \cap Reserved(sys) # {}
    \/ ChanNames(sys) \cap VarNames(sys) # {}

\* C2: for a model in which a channel or free-variable name is a reserved
\* identifier or names both a channel and a free variable, generation fails
\* before the output file is opened: no file exists and none completes.
C2_CollisionFailsBeforeWrite ==
    Collides(op_system) =>
        /\ \A f \in Filenames : ~fs[f].exists
        /\ gens = <<>>

\* ------------------------------------------------------------------- C3
\* C3: when every generate() has returned, the counter has advanced by the
\* number of completed generations and no two of them loaded the same value.
C3_DistinctTags ==
    (\A p \in Threads : pc[p] = "idle") =>
        /\ CGEN_NUM = Len(gens)
        /\ \A i, j \in 1..Len(gens) : i # j => gens[i].tag # gens[j].tag

\* ------------------------------------------------------------------- C4
\* A generation made by a generator that had generated nothing before.
ByFreshGenerator(g) == Cardinality(Positions(g.body, "def")) = 1

\* C4: two completed generations for the model, each by a fresh generator,
\* have distinct artifact names, the later one has not overwritten the file
\* of the earlier one, and their bodies are the same text.
C4_DistinctArtifacts ==
    \A i, j \in 1..Len(gens) :
        (i < j /\ ByFreshGenerator(gens[i]) /\ ByFreshGenerator(gens[j])) =>
            /\ gens[i].file # gens[j].file
            /\ fs[gens[i].file].content = gens[i].body
            /\ gens[i].body = gens[j].body

\* ------------------------------------------------------------------- C5
\* C5: once generate() has returned or raised, the file it opened (if any) is
\* closed and holds every line of self.code.
C5_FileClosedAndComplete ==
    \A p \in Threads :
        (pc[p] \in {"idle", "raised"} /\ self_file[p] # "None") =>
            /\ ~fs[self_file[p]].open
            /\ fs[self_file[p]].content = code[p]

\* ------------------------------------------------------------------- C6
\* Complex coefficients in units of 1e-16, as <<re, im>>.
TolUnits == 10
TdVals == {<<0, 0>>, <<10, 0>>, <<8, 8>>, <<0, -11>>}

\* abs(td) > 1e-15
AbsGtTol(z) == z[1] * z[1] + z[2] * z[2] > TolUnits * TolUnits

\* The value at time t of each time-dependence expression.
Envs == [TdTags \ {""} -> TdVals]

\* spmvpy(data_i, idx_i, ptr_i, vec, c, out, num_rows): out += c * (M_i . vec),
\* recorded as the term and the coefficient (unit: the literal 1.0).
Contribution(i, unit, c) == [i |-> i, unit |-> unit, c |-> c]

\* The value td<i> holds at line j: that of the last assignment before j.
TdAt(body, j, i, env) ==
    LET ks == {k \in 1..(j - 1) : body[k].op = "tdassign" /\ body[k].idx = i}
        k == CHOOSE x \in ks : \A y \in ks : y <= x
    IN  env[body[k].expr]

\* Line j is the body of the `if` on the line above it.
Guarded(body, j) ==
    j > 1 /\ body[j - 1].op = "guard" /\ body[j - 1].pre < body[j].pre

RECURSIVE RunFrom(_, _, _)
RunFrom(body, j, env) ==
    IF j > Len(body) THEN <<>>
    ELSE (IF body[j].op # "spmv" THEN <<>>
          ELSE IF body[j].expr = "1.0"
               THEN <<Contribution(body[j].idx, TRUE, <<0, 0>>)>>
          ELSE IF Guarded(body, j) /\ ~AbsGtTol(TdAt(body, j, body[j].idx, env))
               THEN <<>>
          ELSE <<Contribution(body[j].idx, FALSE, TdAt(body, j, body[j].idx, env))>>)
         \o RunFrom(body, j + 1, env)

\* What the kernel accumulates into the zeroed `out`; an assignment with no
\* right-hand side (`td0 = `) is no kernel at all.
KernelRun(body, env) ==
    IF \E j \in Positions(body, "tdassign") : body[j].expr = ""
    THEN <<[i |-> -1, unit |-> FALSE, c |-> <<0, 0>>]>>
    ELSE RunFrom(body, 1, env)

RECURSIVE ExpectedSum(_, _, _)
ExpectedSum(system, i, env) ==
    IF i >= Len(system) THEN <<>>
    ELSE (IF system[i + 1].td = ""
          THEN <<Contribution(i, TRUE, <<0, 0>>)>>
          ELSE IF AbsGtTol(env[system[i + 1].td])
               THEN <<Contribution(i, FALSE, env[system[i + 1].td])>>
          ELSE <<>>)
         \o ExpectedSum(system, i + 1, env)

\* C6: the kernel of every completed generation accumulates, from a zeroed
\* output and in term order, 1.0 * (M_i . vec) for each time-independent term
\* and td_i * (M_i . vec) for each time-dependent term with |td_i| > 1e-15,
\* and nothing else.
C6_KernelSum ==
    \A g \in 1..Len(gens) :
        \A env \in Envs :
            KernelRun(gens[g].body, env) = ExpectedSum(op_system.system, 0, env)

\* The same, for models whose time-independent terms are all tuples.
C6_KernelSumNoEmptyList ==
    (\A i \in 1..Len(op_system.system) :
        ~(op_system.system[i].isList /\ op_system.system[i].td = "")) =>
    C6_KernelSum

\* ------------------------------------------------------------------- C7
ChanOnceBeforeTerms(body, d, c) ==
    LET e == SegEnd(body, d)
        assigns == {j \in d..e : body[j].op = "chan" /\ body[j].name = c}
    IN  /\ Cardinality(assigns) = 1
        /\ \A j \in assigns :
              /\ \E k \in d..(j - 1) : body[k].op = "cdef_chan" /\ body[k].name = c
              /\ \A k \in d..e : body[k].op \in {"tdassign", "spmv"} => j < k

\* C7: in every emitted kernel function each channel of the model gets exactly
\* one channel_value assignment, after the channel's declaration and before
\* the first coefficient assignment or spmvpy call, whether or not a term
\* refers to the channel.
C7_ChannelsOnceBeforeTerms ==
    \A body \in Emitted :
        \A d \in Positions(body, "def") :
            \A c \in ChanNames(op_system) : ChanOnceBeforeTerms(body, d, c)

\* A completed generation for a model with terms and a channel no term uses.
C7_Witness ==
    /\ Len(gens) > 0
    /\ Len(op_system.system) > 0
    /\ \E c \in ChanNames(op_system) :
          \A i \in 1..Len(op_system.system) : c \notin Refs(op_system.system[i].td)
    /\ \E i \in 1..Len(op_system.system) : IsTdInBody(op_system.system[i])

\* ------------------------------------------------------------------- C8
\* C8: the indent level is never negative, dedent() at level 0 raises and
\* leaves it 0, and generate() from its emission on leaves the level at the
\* value it had on entry.
C8_LevelNeverNegative ==
    \A p \in Threads :
        /\ level[p] >= 0
        /\ last_op[p] = "dedent_raised" => level[p] = 0
        /\ (pc[p] \in {"open", "writelines", "close", "load", "store"}
            \/ last_op[p] = "generate") => level[p] = entry_level[p]

\* dedent() has raised at level 0 after a generation entered at level 1.
C8_Witness ==
    \E p \in Threads :
        /\ last_op[p] = "dedent_raised"
        /\ Len(gens) > 0
        /\ entry_level[p] > 0

\* ------------------------------------------------------------------- C9
\* C9: every completed generate() wrote exactly one kernel function, the
\* text of the model alone.
C9_OneFunctionPerCall ==
    \A g \in 1..Len(gens) :
        /\ Cardinality(Positions(gens[g].body, "def")) = 1
        /\ \E lvl \in 0..MaxLevel : gens[g].body = generate_lines(op_system, lvl)

\* ------------------------------------------------------------------ C10
\* C10: for every term index i the emitted text declares td<i> exactly when
\* it assigns td<i> and guards the accumulation with it.
C10_DeclIffAssign ==
    \A body \in Emitted :
        \A i \in 0..(Len(op_system.system) - 1) :
            (\E j \in Positions(body, "cdef_td") : body[j].idx = i)
            <=> (\E j \in Positions(body, "tdassign") : body[j].idx = i)

\* The same, for models whose time-independent terms are all tuples.
C10_DeclIffAssignNoEmptyList ==
    (\A i \in 1..Len(op_system.system) :
        ~(op_system.system[i].isList /\ op_system.system[i].td = "")) =>
    C10_DeclIffAssign

====
